---------------------------- MODULE Spec2Model ----------------------------
(***************************************************************************)
(* The design-token table exported by frontend/tailwind.config.js, and the *)
(* operations a consumer performs on it: property lookups on the exported  *)
(* object, and a serialize / reload round trip of the table.               *)
(*                                                                         *)
(* JavaScript values are tagged records.  An object is the ordered list of *)
(* its own properties (insertion order, as the object literal lists them); *)
(* an array is a sequence.  Strings are TLA+ strings with the source text. *)
(***************************************************************************)
EXTENDS Integers, Sequences, FiniteSets, TLC

VARIABLES exports, path, value, wire, reloaded

vars == <<exports, path, value, wire, reloaded>>

---------------------------------------------------------------------------
(* JavaScript values *)

Str(s) == [t |-> "string", s |-> s]

Bool(b) == [t |-> "boolean", b |-> b]

Arr(a) == [t |-> "array", a |-> a]

Obj(e) == [t |-> "object", e |-> e]

Fn(name) == [t |-> "function", name |-> name]

Undefined == [t |-> "undefined"]

Null == [t |-> "null"]

P(k, v) == [k |-> k, v |-> v]

---------------------------------------------------------------------------
(* The object literal of tailwind.config.js, section by section *)

DarkMode == Arr(<<Str("class")>>)

(* Content with a pattern that is not relative to the project root *)
Content_NotRelative ==
  Arr(<<Str("./pages/**/*.{js,jsx}"),
        Str("./components/**/*.{js,jsx}"),
        Str("./app/**/*.{js,jsx}"),
        Str("src/**/*.{js,jsx}")>>)

Content ==
  Arr(<<Str("./pages/**/*.{js,jsx}"),
        Str("./components/**/*.{js,jsx}"),
        Str("./app/**/*.{js,jsx}"),
        Str("./src/**/*.{js,jsx}")>>)

(* Prefix left undefined *)
Prefix_Undefined == Undefined

Prefix == Str("")

(* Container whose padding is undefined *)
Container_UndefinedPadding ==
  Obj(<<P("center", Bool(TRUE)),
        P("padding", Undefined),
        P("screens", Obj(<<P("2xl", Str("1400px"))>>))>>)

Container ==
  Obj(<<P("center", Bool(TRUE)),
        P("padding", Str("2rem")),
        P("screens", Obj(<<P("2xl", Str("1400px"))>>))>>)

(* FontFamily whose mono list has no generic fallback *)
FontFamily_NoFallback ==
  Obj(<<P("heading", Arr(<<Str("Outfit"), Str("sans-serif")>>)),
        P("body", Arr(<<Str("DM Sans"), Str("sans-serif")>>)),
        P("mono", Arr(<<Str("JetBrains Mono")>>))>>)

FontFamily ==
  Obj(<<P("heading", Arr(<<Str("Outfit"), Str("sans-serif")>>)),
        P("body", Arr(<<Str("DM Sans"), Str("sans-serif")>>)),
        P("mono", Arr(<<Str("JetBrains Mono"), Str("monospace")>>))>>)

(* Role whose foreground is written without its '#' *)
Role_Unhashed(default, foreground) ==
  Obj(<<P("DEFAULT", Str(default)),
        P("foreground", Str(SubSeq(foreground, 2, Len(foreground))))>>)

Role(default, foreground) ==
  Obj(<<P("DEFAULT", Str(default)), P("foreground", Str(foreground))>>)

Colors ==
  Obj(<<P("border", Str("#E7E5E4")),
        P("input", Str("#E7E5E4")),
        P("ring", Str("#064E3B")),
        P("background", Str("#FAFAF9")),
        P("foreground", Str("#1C1917")),
        P("primary", Role("#064E3B", "#FFFFFF")),
        P("secondary", Role("#FAFAF9", "#1C1917")),
        P("accent", Role("#D9F99D", "#365314")),
        P("muted", Role("#F5F5F4", "#57534E")),
        P("destructive", Role("#EF4444", "#FFFFFF")),
        P("card", Role("#FFFFFF", "#1C1917")),
        P("popover", Role("#FFFFFF", "#1C1917"))>>)

(* BorderRadius whose md is larger than lg *)
BorderRadius_MdTooLarge ==
  Obj(<<P("lg", Str("0.5rem")),
        P("md", Str("0.75rem")),
        P("sm", Str("0.125rem"))>>)

BorderRadius ==
  Obj(<<P("lg", Str("0.5rem")),
        P("md", Str("0.375rem")),
        P("sm", Str("0.125rem"))>>)

(* Step whose height is undefined *)
Step_Undefined(height) == Obj(<<P("height", Undefined)>>)

Step(height) == Obj(<<P("height", Str(height))>>)

(* Keyframes whose accordion-up has no 'to' step *)
Keyframes_NoTo ==
  Obj(<<P("accordion-down",
          Obj(<<P("from", Step("0")),
                P("to", Step("var(--radix-accordion-content-height)"))>>)),
        P("accordion-up",
          Obj(<<P("from", Step("var(--radix-accordion-content-height)"))>>))>>)

Keyframes ==
  Obj(<<P("accordion-down",
          Obj(<<P("from", Step("0")),
                P("to", Step("var(--radix-accordion-content-height)"))>>)),
        P("accordion-up",
          Obj(<<P("from", Step("var(--radix-accordion-content-height)")),
                P("to", Step("0"))>>))>>)

(* Animation whose accordion-up misspells its keyframe name *)
Animation_Typo ==
  Obj(<<P("accordion-down", Str("accordion-down 0.2s ease-out")),
        P("accordion-up", Str("accordian-up 0.2s ease-out"))>>)

(* Animation whose accordion-up runs longer than accordion-down *)
Animation_SlowUp ==
  Obj(<<P("accordion-down", Str("accordion-down 0.2s ease-out")),
        P("accordion-up", Str("accordion-up 0.3s ease-out"))>>)

Animation ==
  Obj(<<P("accordion-down", Str("accordion-down 0.2s ease-out")),
        P("accordion-up", Str("accordion-up 0.2s ease-out"))>>)

Extend ==
  Obj(<<P("fontFamily", FontFamily),
        P("colors", Colors),
        P("borderRadius", BorderRadius),
        P("keyframes", Keyframes),
        P("animation", Animation)>>)

Theme == Obj(<<P("container", Container), P("extend", Extend)>>)

(* What require("tailwindcss-animate") can return.  The module is not part *)
(* of this repository; the file's type annotation makes the export a       *)
(* tailwindcss Config, whose plugins are plugin functions or objects with  *)
(* a handler function.                                                     *)
PluginValues ==
  { Fn("tailwindcss-animate"),
    Obj(<<P("handler", Fn("tailwindcss-animate"))>>),
    Obj(<<P("handler", Fn("tailwindcss-animate")), P("config", Undefined)>>) }

Plugins(plugin) == Arr(<<plugin>>)

ModuleExports(plugin) ==
  Obj(<<P("darkMode", DarkMode),
        P("content", Content),
        P("prefix", Prefix),
        P("theme", Theme),
        P("plugins", Plugins(plugin))>>)

---------------------------------------------------------------------------
(* Property access *)

Digits == "0123456789"

IndexKey(i) == SubSeq(Digits, i + 1, i + 1)

(* The own enumerable property names of a value, in order. *)
OwnKeys(v) ==
  IF v.t = "object" THEN [i \in 1..Len(v.e) |-> v.e[i].k]
  ELSE IF v.t = "array" THEN [i \in 1..Len(v.a) |-> IndexKey(i - 1)]
  ELSE <<>>

KeySet(v) == {OwnKeys(v)[i] : i \in 1..Len(OwnKeys(v))}

(* v[k]: the last property of that name in the literal wins; a name that   *)
(* is not an own property yields undefined.                                *)
GetProp(v, k) ==
  IF v.t = "object" THEN
    LET hits == {i \in 1..Len(v.e) : v.e[i].k = k}
    IN IF hits = {} THEN Undefined
       ELSE v.e[CHOOSE i \in hits : \A j \in hits : j <= i].v
  ELSE IF v.t = "array" THEN
    LET hits == {i \in 1..Len(v.a) : IndexKey(i - 1) = k}
    IN IF hits = {} THEN Undefined ELSE v.a[CHOOSE i \in hits : TRUE]
  ELSE Undefined

RECURSIVE Resolve(_, _)
Resolve(v, p) ==
  IF p = <<>> THEN v ELSE Resolve(GetProp(v, Head(p)), Tail(p))

(* Names a consumer may ask for that the table does not declare everywhere. *)
AbsentKeys == {"corePlugins", "DEFAULT"}

---------------------------------------------------------------------------
(* Serializing the table as JSON text and reading it back *)

Ch(s, i) == SubSeq(s, i, i)

(* s with a backslash put before each quote and each backslash *)
RECURSIVE Escape(_)
Escape(s) ==
  LET marks == {k \in 1..Len(s) : Ch(s, k) \in {"\"", "\\"}}
      k == CHOOSE m \in marks : \A n \in marks : m <= n
  IN IF marks = {} THEN s
     ELSE SubSeq(s, 1, k - 1) \o "\\" \o Ch(s, k)
            \o Escape(SubSeq(s, k + 1, Len(s)))

JsonQuote(s) == "\"" \o Escape(s) \o "\""

(* A value with no JSON form: dropped from an object, null in an array. *)
Unserializable(v) == v.t \in {"undefined", "function"}

(* The strings of parts with a comma between each two. *)
RECURSIVE Join(_)
Join(parts) ==
  IF parts = <<>> THEN ""
  ELSE IF Len(parts) = 1 THEN parts[1]
  ELSE LET h == Len(parts) \div 2
       IN Join(SubSeq(parts, 1, h)) \o ","
            \o Join(SubSeq(parts, h + 1, Len(parts)))

Serializable(m) == ~Unserializable(m.v)

(* The JSON text of v.  A function or undefined inside an array is written *)
(* as null and inside an object is left out with its key.                  *)
RECURSIVE JsonStringify(_)
JsonStringify(v) ==
  IF v.t = "string" THEN JsonQuote(v.s)
  ELSE IF v.t = "boolean" THEN (IF v.b THEN "true" ELSE "false")
  ELSE IF v.t = "array" THEN
    "[" \o Join([i \in 1..Len(v.a) |->
                   IF Unserializable(v.a[i]) THEN "null"
                   ELSE JsonStringify(v.a[i])]) \o "]"
  ELSE IF v.t = "object" THEN
    LET kept == SelectSeq(v.e, Serializable)
    IN "{" \o Join([i \in 1..Len(kept) |->
                      JsonQuote(kept[i].k) \o ":" \o JsonStringify(kept[i].v)])
           \o "}"
  ELSE "null"

(* Reading the text back.  JsonStringify writes no white space, and the    *)
(* reader takes the compact form it writes.  Lex finds the marks of the    *)
(* text that are not inside a string; ParseAt builds the value that starts *)
(* at an index.                                                            *)

(* The length of the run of backslashes that ends just before index j. *)
BackslashRun(s, j) ==
  CHOOSE r \in 0..(j - 1) :
    /\ r = j - 1 \/ Ch(s, j - 1 - r) # "\\"
    /\ \A q \in 0..(r - 1) : Ch(s, j - 1 - q) = "\\"

(* body with each escaped character put back *)
RECURSIVE Unescape(_)
Unescape(body) ==
  LET slashes == {k \in 1..Len(body) : Ch(body, k) = "\\"}
      k == CHOOSE m \in slashes : \A n \in slashes : m <= n
  IN IF slashes = {} THEN body
     ELSE SubSeq(body, 1, k - 1) \o Ch(body, k + 1)
            \o Unescape(SubSeq(body, k + 2, Len(body)))

Min(S) == CHOOSE x \in S : \A y \in S : x <= y

(* The elements of a set of numbers in increasing order. *)
Sorted(S) ==
  [i \in 1..Cardinality(S) |->
     CHOOSE x \in S : Cardinality({y \in S : y < x}) = i - 1]

(* How many of the brackets are open just before index k. *)
Depth(opens, closes, k) ==
  Cardinality({o \in opens : o < k}) - Cardinality({c \in closes : c < k})

Lex(s) ==
  LET quotes == {k \in 1..Len(s) :
                   Ch(s, k) = "\"" /\ BackslashRun(s, k) % 2 = 0}
      Outside(k) == Cardinality({q \in quotes : q < k}) % 2 = 0
      opens == {k \in 1..Len(s) : Ch(s, k) \in {"{", "["} /\ Outside(k)}
      closes == {k \in 1..Len(s) : Ch(s, k) \in {"}", "]"} /\ Outside(k)}
      commas == {k \in 1..Len(s) : Ch(s, k) = "," /\ Outside(k)}
  IN [quotes |-> quotes,
      closes |-> closes,
      commas |-> commas,
      depth |-> [k \in opens \cup closes \cup commas |->
                   Depth(opens, closes, k)]]

(* The bracket that closes the one at index i. *)
Match(lex, i) ==
  Min({c \in lex.closes : c > i /\ lex.depth[c] = lex.depth[i] + 1})

(* Where the elements of the array or object opened at index i start. *)
ItemStarts(lex, i) ==
  LET close == Match(lex, i)
  IN IF close = i + 1 THEN <<>>
     ELSE Sorted({i + 1} \cup
                 {k + 1 : k \in {c \in lex.commas :
                    /\ i < c
                    /\ c < close
                    /\ lex.depth[c] = lex.depth[i] + 1}})

(* The string whose opening quote is at index i, as [v, i]: its text and   *)
(* the index after its closing quote.                                      *)
StrBody(s, lex, i) ==
  LET j == Min({q \in lex.quotes : q > i})
  IN [v |-> Unescape(SubSeq(s, i + 1, j - 1)), i |-> j + 1]

RECURSIVE ParseAt(_, _, _)
ParseAt(s, lex, i) ==
  LET c == Ch(s, i)
      starts == ItemStarts(lex, i)
  IN IF c = "\"" THEN Str(StrBody(s, lex, i).v)
     ELSE IF c = "[" THEN
       Arr([m \in 1..Len(starts) |-> ParseAt(s, lex, starts[m])])
     ELSE IF c = "{" THEN
       Obj([m \in 1..Len(starts) |->
              P(StrBody(s, lex, starts[m]).v,
                ParseAt(s, lex, StrBody(s, lex, starts[m]).i + 1))])
     ELSE IF SubSeq(s, i, i + 3) = "true" THEN Bool(TRUE)
     ELSE IF SubSeq(s, i, i + 4) = "false" THEN Bool(FALSE)
     ELSE IF SubSeq(s, i, i + 3) = "null" THEN Null
     ELSE Undefined

JsonParse(s) == ParseAt(s, Lex(s), 1)

---------------------------------------------------------------------------
(* State machine *)

NotLoaded == [t |-> "none"]

Init ==
  /\ \E plugin \in PluginValues : exports = ModuleExports(plugin)
  /\ path = <<>>
  /\ value = exports
  /\ wire = ""
  /\ reloaded = NotLoaded

(* The consumer reads property k of the value it holds. *)
Lookup(k) ==
  /\ value.t \in {"object", "array"}
  /\ path' = Append(path, k)
  /\ value' = GetProp(value, k)
  /\ UNCHANGED <<exports, wire, reloaded>>

(* The consumer starts again from the exported object. *)
Restart ==
  /\ path # <<>>
  /\ path' = <<>>
  /\ value' = exports
  /\ UNCHANGED <<exports, wire, reloaded>>

(* The table is written out as JSON text. *)
Serialize ==
  /\ wire = ""
  /\ wire' = JsonStringify(exports)
  /\ UNCHANGED <<exports, path, value, reloaded>>

(* The text is read back into a table. *)
Reload ==
  /\ wire # ""
  /\ reloaded = NotLoaded
  /\ reloaded' = JsonParse(wire)
  /\ UNCHANGED <<exports, path, value, wire>>

Next ==
  \/ \E k \in KeySet(value) \cup AbsentKeys : Lookup(k)
  \/ Restart
  \/ Serialize
  \/ Reload

Spec == Init /\ [][Next]_vars

---------------------------------------------------------------------------
(* Reading strings: words, hex colors, lengths *)

IsDigit(c) == \E d \in 0..9 : IndexKey(d) = c

DigitVal(c) == CHOOSE d \in 0..9 : IndexKey(d) = c

IsSpace(c) == c \in {" ", "\t", "\n"}

(* The first index at or after i whose character is not a space (space =   *)
(* TRUE) or is one (space = FALSE); Len(s) + 1 when there is none.         *)
RECURSIVE SkipWhile(_, _, _)
SkipWhile(s, i, space) ==
  IF i > Len(s) \/ IsSpace(Ch(s, i)) # space THEN i
  ELSE SkipWhile(s, i + 1, space)

HexDigits ==
  {IndexKey(d) : d \in 0..9} \cup
  {"a", "b", "c", "d", "e", "f", "A", "B", "C", "D", "E", "F"}

(* The whitespace-separated words of s from index i on. *)
RECURSIVE WordsFrom(_, _)
WordsFrom(s, i) ==
  LET b == SkipWhile(s, i, TRUE)
      e == SkipWhile(s, b, FALSE)
  IN IF b > Len(s) THEN <<>>
     ELSE <<SubSeq(s, b, e - 1)>> \o WordsFrom(s, e)

Words(s) == WordsFrom(s, 1)

StartsWith(s, pre) == Len(s) >= Len(pre) /\ SubSeq(s, 1, Len(pre)) = pre

EndsWith(s, suf) ==
  Len(s) >= Len(suf) /\ SubSeq(s, Len(s) - Len(suf) + 1, Len(s)) = suf

(* '#' followed by exactly six hexadecimal digits *)
IsHex6(s) ==
  /\ Len(s) = 7
  /\ Ch(s, 1) = "#"
  /\ \A i \in 2..7 : Ch(s, i) \in HexDigits

RECURSIVE DigitsEnd(_, _)
DigitsEnd(s, i) ==
  IF i > Len(s) \/ ~IsDigit(Ch(s, i)) THEN i ELSE DigitsEnd(s, i + 1)

(* The number written by the digits s[i..j-1]; 0 for none. *)
RECURSIVE DigitsValue(_, _, _)
DigitsValue(s, i, j) ==
  IF j <= i THEN 0
  ELSE 10 * DigitsValue(s, i, j - 1) + DigitVal(Ch(s, j - 1))

(* A CSS length "<int>[.<frac>]<unit>" as [milli, unit]: the number in     *)
(* thousandths (at most three fraction digits), or milli = -1 when the     *)
(* string is no such length.                                               *)
ParseLength(s) ==
  LET a == DigitsEnd(s, 1)
      dot == a <= Len(s) /\ Ch(s, a) = "."
      b == IF dot THEN DigitsEnd(s, a + 1) ELSE a
      nfrac == IF dot THEN b - a - 1 ELSE 0
      scale == IF nfrac = 1 THEN 100 ELSE IF nfrac = 2 THEN 10 ELSE 1
      frac == IF dot THEN DigitsValue(s, a + 1, b) * scale ELSE 0
      bad == a = 1 \/ (dot /\ nfrac = 0) \/ nfrac > 3 \/ b > Len(s)
  IN [milli |-> IF bad THEN -1 ELSE 1000 * DigitsValue(s, 1, a) + frac,
      unit |-> IF bad THEN "" ELSE SubSeq(s, b, Len(s))]

(* Thousandths of a rem, or -1 when s is not a length in rem. *)
MilliRem(s) ==
  IF ParseLength(s).unit = "rem" THEN ParseLength(s).milli ELSE -1

LengthUnits == {"rem", "px", "em", "%"}

IsLength(s) == ParseLength(s).milli >= 0 /\ ParseLength(s).unit \in LengthUnits

---------------------------------------------------------------------------
(* The sections of the exported table *)

AnimationPath == <<"theme", "extend", "animation">>

KeyframesPath == <<"theme", "extend", "keyframes">>

ColorsPath == <<"theme", "extend", "colors">>

RadiusPath == <<"theme", "extend", "borderRadius">>

FontPath == <<"theme", "extend", "fontFamily">>

ContainerPath == <<"theme", "container">>

Section(p) == Resolve(exports, p)

IsStr(v) == v.t = "string"

Animations == Section(AnimationPath)

KeyframeSets == Section(KeyframesPath)

ColorRoles == Section(ColorsPath)

(* The words of animation binding n: keyframe name, duration, easing. *)
Binding(n) ==
  IF IsStr(GetProp(Animations, n)) THEN Words(GetProp(Animations, n).s)
  ELSE <<>>

---------------------------------------------------------------------------
(* C1: for every entry of theme.extend.animation, the first whitespace-    *)
(* separated word of its value is a key of theme.extend.keyframes; the     *)
(* 'accordion-down' animation names the 'accordion-down' keyframe and      *)
(* 'accordion-up' names 'accordion-up'.                                    *)
C1_AnimationNamesKeyframe ==
  /\ \A n \in KeySet(Animations) :
       Binding(n) # <<>> /\ Binding(n)[1] \in KeySet(KeyframeSets)
  /\ \A n \in {"accordion-down", "accordion-up"} :
       n \in KeySet(Animations) /\ Binding(n) # <<>> /\ Binding(n)[1] = n

C1_Witness ==
  /\ path = AnimationPath \o <<"accordion-down">>
  /\ value = Str("accordion-down 0.2s ease-out")
  /\ Words(value.s)[1] = "accordion-down"
  /\ GetProp(KeyframeSets, "accordion-down") # Undefined

---------------------------------------------------------------------------
DeclaresForeground(v) == v.t = "object" /\ "foreground" \in KeySet(v)

HexString(v) == IsStr(v) /\ IsHex6(v.s)

(* C2: every color role that declares a 'foreground' (primary, secondary,  *)
(* accent, muted, destructive, card, popover) defines both DEFAULT and     *)
(* foreground, and each is '#' followed by exactly six hexadecimal digits. *)
C2_ForegroundRolesAreHexPairs ==
  /\ {r \in KeySet(ColorRoles) : DeclaresForeground(GetProp(ColorRoles, r))}
       = {"primary", "secondary", "accent", "muted", "destructive", "card",
          "popover"}
  /\ \A r \in KeySet(ColorRoles) :
       LET role == GetProp(ColorRoles, r)
       IN DeclaresForeground(role) =>
            /\ "DEFAULT" \in KeySet(role)
            /\ HexString(GetProp(role, "DEFAULT"))
            /\ HexString(GetProp(role, "foreground"))

C2_Witness ==
  /\ path = ColorsPath \o <<"accent", "foreground">>
  /\ value = Str("#365314")
  /\ IsHex6(value.s)
  /\ HexString(GetProp(GetProp(ColorRoles, "accent"), "DEFAULT"))

---------------------------------------------------------------------------
(* Radius n in thousandths of a rem; -1 when it is no length in rem. *)
Radius(n) ==
  IF IsStr(GetProp(Section(RadiusPath), n))
  THEN MilliRem(GetProp(Section(RadiusPath), n).s)
  ELSE -1

(* C3: in one unit (thousandths of a rem) the radii are sm = 125,          *)
(* md = 375, lg = 500, and 0 <= sm < md < lg.                              *)
C3_RadiusScaleOrdered ==
  /\ 0 <= Radius("sm")
  /\ Radius("sm") < Radius("md")
  /\ Radius("md") < Radius("lg")
  /\ <<Radius("sm"), Radius("md"), Radius("lg")>> = <<125, 375, 500>>

C3_Witness ==
  /\ path = RadiusPath \o <<"md">>
  /\ value = Str("0.375rem")
  /\ MilliRem(value.s) = 375
  /\ Radius("sm") < MilliRem(value.s)

---------------------------------------------------------------------------
ContentList == GetProp(exports, "content")

(* C4: every element of 'content' is a non-empty string that begins with   *)
(* './' and ends in the file-extension wildcard '*.{js,jsx}'.              *)
C4_ContentGlobs ==
  /\ ContentList.t = "array"
  /\ \A i \in 1..Len(ContentList.a) :
       LET g == ContentList.a[i]
       IN /\ IsStr(g)
          /\ g.s # ""
          /\ StartsWith(g.s, "./")
          /\ EndsWith(g.s, "*.{js,jsx}")

C4_Witness ==
  /\ path = <<"content", "3">>
  /\ value = Str("./src/**/*.{js,jsx}")
  /\ StartsWith(value.s, "./")
  /\ EndsWith(value.s, "*.{js,jsx}")

---------------------------------------------------------------------------
DataKeys == {"darkMode", "content", "prefix", "theme"}

(* C5 as stated: serializing the exported table and reloading it yields a  *)
(* mapping identical to the original, the 'plugins' list included.         *)
C5_RoundTripWholeTable == reloaded # NotLoaded => reloaded = exports

(* C5, amended: the reloaded table has the keys of the original in the     *)
(* same order and is identical to it in darkMode, content, prefix and      *)
(* theme, and serializing it again gives the same text; its 'plugins' list *)
(* differs, the plugin value having no serialized form.                    *)
C5_RoundTripOfData ==
  reloaded # NotLoaded =>
    /\ OwnKeys(reloaded) = OwnKeys(exports)
    /\ \A k \in DataKeys : GetProp(reloaded, k) = GetProp(exports, k)
    /\ JsonStringify(reloaded) = wire
    /\ GetProp(reloaded, "plugins") # GetProp(exports, "plugins")

C5_Witness ==
  /\ reloaded # NotLoaded
  /\ GetProp(reloaded, "theme") = Theme
  /\ GetProp(exports, "plugins") = Arr(<<Fn("tailwindcss-animate")>>)
  /\ GetProp(reloaded, "plugins") = Arr(<<Null>>)

---------------------------------------------------------------------------
StrategyTokens == {"media", "class", "selector"}

IsPlugin(v) ==
  \/ v.t = "function"
  \/ v.t = "object" /\ GetProp(v, "handler").t = "function"

AllStrings(list) ==
  list.t = "array" /\ \A i \in 1..Len(list.a) : IsStr(list.a[i])

AllPlugins(list) ==
  list.t = "array" /\ \A i \in 1..Len(list.a) : IsPlugin(list.a[i])

LengthString(v) == IsStr(v) /\ IsLength(v.s)

(* The shapes of every section but darkMode. *)
TableShape ==
  /\ KeySet(exports) = {"darkMode", "content", "prefix", "theme", "plugins"}
  /\ AllStrings(GetProp(exports, "content"))
  /\ GetProp(exports, "prefix") = Str("")
  /\ KeySet(GetProp(exports, "theme")) = {"container", "extend"}
  /\ KeySet(Section(ContainerPath)) = {"center", "padding", "screens"}
  /\ GetProp(Section(ContainerPath), "center").t = "boolean"
  /\ LengthString(GetProp(Section(ContainerPath), "padding"))
  /\ LET screens == GetProp(Section(ContainerPath), "screens")
     IN /\ screens.t = "object"
        /\ \A b \in KeySet(screens) : LengthString(GetProp(screens, b))
  /\ KeySet(Section(<<"theme", "extend">>))
       = {"fontFamily", "colors", "borderRadius", "keyframes", "animation"}
  /\ \A k \in KeySet(Section(<<"theme", "extend">>)) :
       Section(<<"theme", "extend", k>>).t = "object"
  /\ AllPlugins(GetProp(exports, "plugins"))

(* C6 as stated: the sections are present with their shapes, and darkMode  *)
(* is a strategy token.                                                    *)
C6_DarkModeIsToken ==
  /\ TableShape
  /\ IsStr(GetProp(exports, "darkMode"))
  /\ GetProp(exports, "darkMode").s \in StrategyTokens

(* C6, amended: the sections are present with their shapes, and darkMode   *)
(* is a non-empty list whose first element is a strategy token.            *)
C6_DarkModeIsTokenList ==
  /\ TableShape
  /\ LET dm == GetProp(exports, "darkMode")
     IN /\ dm.t = "array"
        /\ dm.a # <<>>
        /\ IsStr(dm.a[1])
        /\ dm.a[1].s \in StrategyTokens

C6_Witness ==
  /\ path = <<"darkMode", "0">>
  /\ value = Str("class")
  /\ GetProp(exports, "darkMode").t = "array"

---------------------------------------------------------------------------
(* Every step of p names an own property of the value it is applied to. *)
RECURSIVE Declared(_, _)
Declared(v, p) ==
  \/ p = <<>>
  \/ Head(p) \in KeySet(v) /\ Declared(GetProp(v, Head(p)), Tail(p))

(* p stays inside the literal of the file: it does not enter the value     *)
(* that require returned.                                                  *)
InTable(p) == Len(p) <= 1 \/ Head(p) # "plugins"

Under(p, section) ==
  Len(p) = Len(section) + 1 /\ SubSeq(p, 1, Len(section)) = section

(* v, found at p, is a whole value: defined, not empty unless it is the    *)
(* prefix, a color role with both DEFAULT and foreground, a keyframe set   *)
(* with both from and to.                                                  *)
Whole(p, v) ==
  /\ v.t \in {"string", "boolean", "array", "object"}
  /\ IsStr(v) /\ p # <<"prefix">> => v.s # ""
  /\ v.t = "array" => v.a # <<>>
  /\ v.t = "object" => v.e # <<>>
  /\ Under(p, ColorsPath) /\ v.t = "object" =>
       {"DEFAULT", "foreground"} \subseteq KeySet(v)
  /\ Under(p, KeyframesPath) =>
       v.t = "object" /\ {"from", "to"} \subseteq KeySet(v)

(* C7: a lookup along a declared key path of the table always gives the    *)
(* value the table holds at that path, the table never changes, and that   *)
(* value is whole.                                                         *)
C7_LookupsTotalDeterministic ==
  /\ [](Declared(exports, path) /\ InTable(path) =>
          value = Resolve(exports, path) /\ Whole(path, value))
  /\ [][exports' = exports]_vars

C7_Witness ==
  /\ path = ContainerPath \o <<"screens", "2xl">>
  /\ Declared(exports, path)
  /\ value = Str("1400px")
  /\ Whole(path, value)

---------------------------------------------------------------------------
GenericFamilies == {"sans-serif", "monospace"}

(* C8: each of the font roles heading, body and mono has a non-empty list  *)
(* of family names whose last element is 'sans-serif' or 'monospace'.      *)
C8_FontListsEndGeneric ==
  /\ KeySet(Section(FontPath)) = {"heading", "body", "mono"}
  /\ \A r \in KeySet(Section(FontPath)) :
       LET fonts == GetProp(Section(FontPath), r)
       IN /\ AllStrings(fonts)
          /\ fonts.a # <<>>
          /\ fonts.a[Len(fonts.a)].s \in GenericFamilies

C8_Witness ==
  /\ path = FontPath \o <<"mono", "1">>
  /\ value = Str("monospace")
  /\ Len(Resolve(exports, FontPath \o <<"mono">>).a) = 2

---------------------------------------------------------------------------
(* C9: every keyframe set declares both 'from' and 'to', and the two steps *)
(* give values to the same set of properties, which is {height}.           *)
C9_KeyframeStepsSameProperties ==
  \A n \in KeySet(KeyframeSets) :
    LET kf == GetProp(KeyframeSets, n)
    IN /\ {"from", "to"} \subseteq KeySet(kf)
       /\ KeySet(GetProp(kf, "from")) = KeySet(GetProp(kf, "to"))
       /\ KeySet(GetProp(kf, "from")) = {"height"}
       /\ \A step \in {"from", "to"} :
            IsStr(GetProp(GetProp(kf, step), "height"))

C9_Witness ==
  /\ path = KeyframesPath \o <<"accordion-down", "to">>
  /\ KeySet(value) = {"height"}
  /\ KeySet(Resolve(exports, KeyframesPath \o <<"accordion-down", "from">>))
       = {"height"}

---------------------------------------------------------------------------
Keyframe(n, step) == GetProp(GetProp(KeyframeSets, n), step)

(* C10: accordion-up is accordion-down reversed (each one's 'from' is the  *)
(* other's 'to'), both bindings run '0.2s ease-out', and every keyframe    *)
(* set is named by exactly one animation binding, the one of its own name. *)
C10_UpReversesDown ==
  /\ Keyframe("accordion-up", "from") # Undefined
  /\ Keyframe("accordion-up", "to") # Undefined
  /\ Keyframe("accordion-up", "from") = Keyframe("accordion-down", "to")
  /\ Keyframe("accordion-up", "to") = Keyframe("accordion-down", "from")
  /\ \A n \in {"accordion-down", "accordion-up"} :
       Len(Binding(n)) = 3 /\ SubSeq(Binding(n), 2, 3) = <<"0.2s", "ease-out">>
  /\ \A kf \in KeySet(KeyframeSets) :
       {n \in KeySet(Animations) : Binding(n) # <<>> /\ Binding(n)[1] = kf}
         = {kf}

C10_Witness ==
  /\ path = KeyframesPath \o <<"accordion-up", "from">>
  /\ value = Keyframe("accordion-down", "to")
  /\ value = Step("var(--radix-accordion-content-height)")
  /\ Binding("accordion-up") = <<"accordion-up", "0.2s", "ease-out">>

=============================================================================
